---- MODULE Spec2Model ----
(***************************************************************************)
(* A model of scraper/app.py: the POST /scrape handler (authentication,   *)
(* request validation, URL safety, Accept negotiation, dispatch to the    *)
(* worker pool), the image stacker, and the multipart stream generator    *)
(* with its clean-up of temporary files.                                  *)
(*                                                                         *)
(* Conventions.  A Python value that may be None (a missing header, a      *)
(* missing JSON key, a path that is None) is a sequence of length 0 or 1:  *)
(* None is <<>> and the value v is <<v>>.  A URL string is represented by  *)
(* the components urlparse() extracts from it (before lower-casing and     *)
(* before the port is split off).  An Authorization header value is        *)
(* represented by the list auth_header.split(' ') produces from it.        *)
(* A file is a path <<kind, request, index>>; the disk is the set of paths *)
(* that exist.                                                             *)
(***************************************************************************)
EXTENDS Integers, Sequences, FiniteSets, TLC

VARIABLES
    SCRAPER_API_KEYS,   \* the key list loaded at start-up (app.py:28)
    unlinkMayFail,      \* environment: whether os.unlink can raise on an existing file
    disk,               \* the set of paths that exist
    pc,                 \* per request: where the handler / the generator stands
    request,            \* per request: the flask request object (headers, json)
    checks,             \* per request: the checks the handler has run, in order
    dnsLookups,         \* per request: the hosts handed to socket.getaddrinfo, in order
    image_format,       \* per request: local image_format (app.py:200)
    task,               \* per request: the arguments of the apply_async call in flight
    workerCalls,        \* per request: number of scrape_task.apply_async calls made
    response,           \* per request: the response the handler returned
    content_file,       \* per request: local content_file (None or a path)
    screenshot_files,   \* per request: local screenshot_files (a list of paths)
    stacked_screenshot, \* per request: local stacked_screenshot (None or a path)
    cleanup_files,      \* per request: local cleanup_files (a list of paths)
    fileChunks,         \* per request: sizes, in 4096-byte reads, of the streamed files
    out,                \* per request: the chunks the generator has yielded, in order
    ended,              \* per request: how the generator ended
    escaped,            \* per request: an exception propagated out of the generator
    log,                \* per request: what was printed to stderr, in order
    unlinked,           \* per request: the paths os.unlink removed, in order
    probe,              \* one call of url_is_safe on arbitrary arguments, and its result
    stackProbe          \* one call of stack_images_vertically, and what it did

vars == <<SCRAPER_API_KEYS, unlinkMayFail, disk, pc, request, checks, dnsLookups,
          image_format, task, workerCalls, response, content_file, screenshot_files,
          stacked_screenshot, cleanup_files, fileChunks, out, ended, escaped, log,
          unlinked, probe, stackProbe>>

(***************************************************************************)
(* Bounds of the model.                                                    *)
(***************************************************************************)
\* The most screenshot files one worker result carries.
MaxShots == 2
\* The most 4096-byte reads a streamed file takes.
MaxChunks == 2

\* The longest list of images stack_images_vertically is called on.
MaxImages == 3

\* The concurrently handled requests.
Reqs == {1, 2}

(***************************************************************************)
(* Limits imported from the worker module (app.py:12).  Their values are   *)
(* set outside this file; the model uses small stand-ins, with different   *)
(* limits on the two axes of the browser dimensions.                       *)
(***************************************************************************)
MAX_WAIT == 3
DEFAULT_WAIT == 1
MAX_SCREENSHOTS == 2
DEFAULT_SCREENSHOTS == 1
MIN_BROWSER_DIM == <<2, 1>>
MAX_BROWSER_DIM == <<4, 3>>
DEFAULT_BROWSER_DIM == <<3, 2>>

None == <<>>
Some(v) == <<v>>

\* dict.get(key, default) / headers.get(name, default) on an optional value.
Get(opt, default) == IF opt = None THEN default ELSE opt[1]

(***************************************************************************)
(* is_private_ip and url_is_safe.                                          *)
(***************************************************************************)
\* The properties the ipaddress module reports for the address strings of the
\* model; "parses" is FALSE where ipaddress.ip_address raises ValueError.
IpInfo(ip_str) ==
    CASE ip_str = "93.184.216.34" -> [parses |-> TRUE,  flags |-> {}]
      [] ip_str = "8.8.8.8"       -> [parses |-> TRUE,  flags |-> {}]
      [] ip_str = "127.0.0.1"     -> [parses |-> TRUE,  flags |-> {"loopback", "private"}]
      [] ip_str = "10.0.0.5"      -> [parses |-> TRUE,  flags |-> {"private"}]
      [] ip_str = "240.0.0.1"     -> [parses |-> TRUE,  flags |-> {"reserved"}]
      [] ip_str = "169.254.1.1"   -> [parses |-> TRUE,  flags |-> {"link_local"}]
      [] ip_str = "224.0.0.1"     -> [parses |-> TRUE,  flags |-> {"multicast"}]
      [] OTHER                    -> [parses |-> FALSE, flags |-> {}]

\* A mutation of is_private_ip: an unparsable address is treated as public.
is_private_ip_ParseErrorSafe(ip_str) ==
    IF ~IpInfo(ip_str).parses
    THEN FALSE
    ELSE IpInfo(ip_str).flags \cap
            {"loopback", "private", "reserved", "link_local", "multicast"} # {}

is_private_ip(ip_str) ==
    IF ~IpInfo(ip_str).parses
    THEN TRUE
    ELSE \/ "loopback" \in IpInfo(ip_str).flags
         \/ "private" \in IpInfo(ip_str).flags
         \/ "reserved" \in IpInfo(ip_str).flags
         \/ "link_local" \in IpInfo(ip_str).flags
         \/ "multicast" \in IpInfo(ip_str).flags

\* The resolver: what socket.getaddrinfo(host, None) does for the hosts of the
\* model.  "addrs": it returns these addresses; "gaierror": it raises
\* socket.gaierror; "error": it raises another exception (UnicodeError for a
\* host with an empty or over-long label), which url_is_safe does not catch.
getaddrinfo(host) ==
    CASE host = "public.example"  -> [kind |-> "addrs", addrs |-> <<"93.184.216.34">>]
      [] host = "two.example"     -> [kind |-> "addrs", addrs |-> <<"93.184.216.34", "8.8.8.8">>]
      [] host = "rebind.example"  -> [kind |-> "addrs", addrs |-> <<"93.184.216.34", "10.0.0.5">>]
      [] host = "localhost"       -> [kind |-> "addrs", addrs |-> <<"127.0.0.1">>]
      [] host = "intranet"        -> [kind |-> "addrs", addrs |-> <<"10.0.0.5">>]
      [] host = "reserved.example" -> [kind |-> "addrs", addrs |-> <<"240.0.0.1">>]
      [] host = "metadata"        -> [kind |-> "addrs", addrs |-> <<"169.254.1.1">>]
      [] host = "mcast.example"   -> [kind |-> "addrs", addrs |-> <<"8.8.8.8", "224.0.0.1">>]
      [] host = "scoped.example"  -> [kind |-> "addrs", addrs |-> <<"8.8.8.8", "fe80::1%eth0">>]
      [] host = "a..b"            -> [kind |-> "error", addrs |-> <<>>]
      [] OTHER                    -> [kind |-> "gaierror", addrs |-> <<>>]

Hosts == {"public.example", "two.example", "rebind.example", "localhost", "intranet",
          "reserved.example", "metadata", "mcast.example", "scoped.example",
          "a..b", "nxdomain.example", "["}

\* str.lower() on the scheme strings of the model.
Lower(s) ==
    CASE s = "HTTP"  -> "http"
      [] s = "HTTPS" -> "https"
      [] s = "File"  -> "file"
      [] OTHER       -> s

\* parsed.netloc.split(':')[0], the netloc being given as its ':'-separated parts.
HostOf(url) == url.netloc[1]

\* The default of the allowed_schemes parameter.
DefaultSchemes == {"http", "https", "file"}

\* The loop over the resolved addresses: FALSE at the first private one.
RECURSIVE AllAddrsPublic(_)
AllAddrsPublic(addrs) ==
    IF addrs = <<>>
    THEN TRUE
    ELSE IF is_private_ip(Head(addrs)) THEN FALSE ELSE AllAddrsPublic(Tail(addrs))

\* A mutation of url_is_safe: only the first resolved address is checked.
url_is_safe_FirstAddrOnly(url, allowed_schemes) ==
    LET scheme == Lower(url.scheme)
        res    == getaddrinfo(HostOf(url))
    IN  IF scheme = "file" THEN "safe"
        ELSE IF scheme \notin allowed_schemes THEN "unsafe"
        ELSE IF res.kind = "error" THEN "raise"
        ELSE IF res.kind = "gaierror" THEN "unsafe"
        ELSE IF is_private_ip(Head(res.addrs)) THEN "unsafe"
        ELSE "safe"

\* url_is_safe: "safe" for True, "unsafe" for False, "raise" when an exception
\* leaves the function.
url_is_safe(url, allowed_schemes) ==
    LET scheme == Lower(url.scheme)
        res    == getaddrinfo(HostOf(url))
    IN  IF scheme = "file" THEN "safe"
        ELSE IF scheme \notin allowed_schemes THEN "unsafe"
        ELSE IF res.kind = "error" THEN "raise"
        ELSE IF res.kind = "gaierror" THEN "unsafe"
        ELSE IF AllAddrsPublic(res.addrs) THEN "safe"
        ELSE "unsafe"

\* The hosts url_is_safe hands to socket.getaddrinfo (none or one).
ResolvedBy(url, allowed_schemes) ==
    IF Lower(url.scheme) = "file" \/ Lower(url.scheme) \notin allowed_schemes
    THEN <<>>
    ELSE <<HostOf(url)>>

(***************************************************************************)
(* The requests of the model.                                              *)
(***************************************************************************)
\* Authorization header values, as auth_header.split(' ') lists them:
\* "Basic k1", "Bearer k1", "Bearer k2", "Bearer k1 x", "Bearer" and "bearer k1".
AuthValues == {<<"Basic", "k1">>, <<"Bearer", "k1">>, <<"Bearer", "k2">>,
               <<"Bearer", "k1", "x">>, <<"Bearer">>, <<"bearer", "k1">>}

AcceptValues == {"image/png", "*/*", "text/html"}

EmptyUrl == [scheme |-> "", netloc |-> <<"">>]

PublicUrl == [scheme |-> "http", netloc |-> <<"public.example">>]

RequestUrls ==
    {EmptyUrl, PublicUrl,
     [scheme |-> "HTTPS", netloc |-> <<"two.example", "8443">>],
     [scheme |-> "http",  netloc |-> <<"rebind.example">>],
     [scheme |-> "http",  netloc |-> <<"nxdomain.example">>],
     [scheme |-> "http",  netloc |-> <<"a..b">>],
     [scheme |-> "ftp",   netloc |-> <<"public.example">>],
     [scheme |-> "file",  netloc |-> <<"">>]}

WaitValues == {0 - 1, 0, MAX_WAIT, MAX_WAIT + 1}

ShotValues == {0, MAX_SCREENSHOTS, MAX_SCREENSHOTS + 1}

DimValues ==
    {MIN_BROWSER_DIM, MAX_BROWSER_DIM,
     <<MIN_BROWSER_DIM[1] - 1, MIN_BROWSER_DIM[2]>>,
     <<MAX_BROWSER_DIM[1] + 1, MAX_BROWSER_DIM[2]>>,
     <<MIN_BROWSER_DIM[1], MIN_BROWSER_DIM[2] - 1>>,
     <<MAX_BROWSER_DIM[1], MAX_BROWSER_DIM[2] + 1>>}

Optional(S) == {None} \cup {Some(v) : v \in S}

\* The requests being handled.
Arrived == {r \in Reqs : pc[r] # "off"}

\* What a request is drawn from: any value of "all" when it is handled alone,
\* one of "few" when requests are handled concurrently, where the interleaving
\* of their steps is looked at and not the range of their values.
Drawn(all, few) == IF Cardinality(Arrived) > 1 THEN few ELSE all

\* The request object before the handler has read anything from it, and after
\* the handler has returned a streaming response.  The Accept header is drawn
\* when the request arrives; any other header or JSON key is drawn when the
\* handler first reads it: what it never reads cannot influence it.
NoRequest ==
    [auth |-> None, accept |-> None, url |-> None, wait |-> None,
     max_screenshots |-> None, browser_dim |-> None]

NoResponse == [status |-> 0, body |-> <<>>]

\* jsonify({'error': message}), status: the message is given by its pieces.
ErrorResponse(status, message) == [status |-> status, body |-> message]

(***************************************************************************)
(* Authentication (app.py:151-161).                                        *)
(***************************************************************************)
\* auth_header.startswith('Bearer '), on the split(' ') list of the header.
StartsWithBearer(fields) == Len(fields) >= 2 /\ fields[1] = "Bearer"

\* A mutation of Authenticate: the key is not compared with the key list.
Authenticate_NoKeyCheck(keys, auth_header) ==
    IF keys = {} THEN None
    ELSE IF auth_header = None
        THEN Some(ErrorResponse(401, <<"Authorization header is missing">>))
    ELSE IF ~StartsWithBearer(auth_header[1])
        THEN Some(ErrorResponse(401, <<"Invalid authorization header format">>))
    ELSE None

\* None when the request may go on, else the 401 response returned.
Authenticate(keys, auth_header) ==
    IF keys = {} THEN None
    ELSE IF auth_header = None
        THEN Some(ErrorResponse(401, <<"Authorization header is missing">>))
    ELSE IF ~StartsWithBearer(auth_header[1])
        THEN Some(ErrorResponse(401, <<"Invalid authorization header format">>))
    ELSE IF auth_header[1][2] \notin keys
        THEN Some(ErrorResponse(401, <<"Invalid API key">>))
    ELSE None

(***************************************************************************)
(* Bounds of wait, browser_dim and max_screenshots (app.py:170-188).       *)
(***************************************************************************)
\* A mutation of WaitRejected: the upper bound is exclusive.
WaitRejected_Exclusive(wait) == wait < 0 \/ wait >= MAX_WAIT

WaitRejected(wait) == wait < 0 \/ wait > MAX_WAIT

\* A mutation of DimRejected: the height is compared with the width's limits.
DimRejected_WidthLimits(browser_dim, i) ==
    browser_dim[i] > MAX_BROWSER_DIM[1] \/ browser_dim[i] < MIN_BROWSER_DIM[1]

DimRejected(browser_dim, i) ==
    browser_dim[i] > MAX_BROWSER_DIM[i] \/ browser_dim[i] < MIN_BROWSER_DIM[i]

ShotsRejected(n_screenshots) == n_screenshots > MAX_SCREENSHOTS

AxisName(i) == IF i = 1 THEN "width" ELSE "height"

\* None when the three values pass, else the 400 response returned.
ValidateBounds(wait, n_screenshots, browser_dim) ==
    IF WaitRejected(wait)
    THEN Some(ErrorResponse(400,
            <<"Value ", ToString(wait),
              " for \"wait\" is unacceptable; must be between 0 and ",
              ToString(MAX_WAIT)>>))
    ELSE IF \E i \in 1..2 : DimRejected(browser_dim, i)
    THEN LET i == CHOOSE j \in 1..2 :
                      /\ DimRejected(browser_dim, j)
                      /\ \A k \in 1..(j - 1) : ~DimRejected(browser_dim, k)
         IN  Some(ErrorResponse(400,
                <<"Value ", ToString(browser_dim[i]), " for browser ", AxisName(i),
                  " is unacceptable; must be between ", ToString(MIN_BROWSER_DIM[i]),
                  " and ", ToString(MAX_BROWSER_DIM[i])>>))
    ELSE IF ShotsRejected(n_screenshots)
    THEN Some(ErrorResponse(400,
            <<"Value ", ToString(n_screenshots),
              " for max_screenshots is unacceptable; must be below ",
              ToString(MAX_SCREENSHOTS)>>))
    ELSE None

(***************************************************************************)
(* The Accept header (app.py:190-205).                                     *)
(***************************************************************************)
\* accepted_formats.get(accept_header): None for a key the dict does not hold.
accepted_formats(accept_header) ==
    CASE accept_header = "image/webp" -> Some("webp")
      [] accept_header = "image/png"  -> Some("png")
      [] accept_header = "image/jpeg" -> Some("jpeg")
      [] accept_header = "image/*"    -> Some("jpeg")
      [] accept_header = "*/*"        -> Some("jpeg")
      [] OTHER                        -> None

\* A mutation of accepted_formats_list: the keys are listed in sorted order.
accepted_formats_list_Sorted == "*/*, image/*, image/jpeg, image/png, image/webp"

\* ', '.join(accepted_formats.keys()), in the dict's insertion order.
accepted_formats_list == "image/webp, image/png, image/jpeg, image/*, */*"

(***************************************************************************)
(* Files.                                                                  *)
(***************************************************************************)
ContentPath(r) == <<"content", r, 0>>
ShotPath(r, i) == <<"shot", r, i>>
\* A mutation of StackedPath: every request's stacked image gets one name.
StackedPath_OneName(r) == <<"stacked", 0, 0>>

\* The name tempfile.mkstemp makes up for request r's stacked image.
StackedPath(r) == <<"stacked", r, 0>>

Range(seq) == {seq[i] : i \in 1..Len(seq)}

RECURSIVE Count(_, _)
Count(seq, x) ==
    IF seq = <<>> THEN 0
    ELSE (IF Head(seq) = x THEN 1 ELSE 0) + Count(Tail(seq), x)

(***************************************************************************)
(* stack_images_vertically (app.py:102-146), as far as files go: the path  *)
(* returned, the files created and the files removed.  fails tells whether *)
(* the imaging library raises, and where: "open" for Image.open, Image.new *)
(* or paste (before the output file exists), "save" for save (after        *)
(* mkstemp has created it), "no" for a call that returns.                  *)
(***************************************************************************)
StackFailures == {"no", "open", "save"}

\* A mutation of stack_images_vertically: the stacked inputs are removed once
\* the stacked image is saved.
stack_images_vertically_RemovesInputs(image_files, new_path, fails) ==
    IF image_files = <<>>
    THEN [path |-> None, created |-> {}, removed |-> {}, raised |-> FALSE]
    ELSE IF Len(image_files) = 1
    THEN [path |-> Some(image_files[1]), created |-> {}, removed |-> {}, raised |-> FALSE]
    ELSE IF fails = "open"
    THEN [path |-> None, created |-> {}, removed |-> {}, raised |-> TRUE]
    ELSE IF fails = "save"
    THEN [path |-> None, created |-> {new_path}, removed |-> {}, raised |-> TRUE]
    ELSE [path |-> Some(new_path), created |-> {new_path},
          removed |-> Range(image_files), raised |-> FALSE]

\* A mutation of stack_images_vertically: a single image is saved to a new
\* file like any other stack.
stack_images_vertically_CopiesSingle(image_files, new_path, fails) ==
    IF image_files = <<>>
    THEN [path |-> None, created |-> {}, removed |-> {}, raised |-> FALSE]
    ELSE IF fails = "open"
    THEN [path |-> None, created |-> {}, removed |-> {}, raised |-> TRUE]
    ELSE IF fails = "save"
    THEN [path |-> None, created |-> {new_path}, removed |-> {}, raised |-> TRUE]
    ELSE [path |-> Some(new_path), created |-> {new_path}, removed |-> {},
          raised |-> FALSE]

stack_images_vertically(image_files, new_path, fails) ==
    IF image_files = <<>>
    THEN [path |-> None, created |-> {}, removed |-> {}, raised |-> FALSE]
    ELSE IF Len(image_files) = 1
    THEN [path |-> Some(image_files[1]), created |-> {}, removed |-> {}, raised |-> FALSE]
    ELSE IF fails = "open"
    THEN [path |-> None, created |-> {}, removed |-> {}, raised |-> TRUE]
    ELSE IF fails = "save"
    THEN [path |-> None, created |-> {new_path}, removed |-> {}, raised |-> TRUE]
    ELSE [path |-> Some(new_path), created |-> {new_path}, removed |-> {},
          raised |-> FALSE]

(***************************************************************************)
(* stack_images_vertically, as far as pixels go (app.py:120-137): an image *)
(* is its width and height; the stacked image is the size of the canvas    *)
(* and the position each input was pasted at, in order.                    *)
(***************************************************************************)
\* max(img.width for img in images), for a non-empty list.
RECURSIVE max_width(_)
max_width(images) ==
    IF Len(images) = 1 THEN images[1].width
    ELSE LET rest == max_width(Tail(images))
         IN  IF Head(images).width > rest THEN Head(images).width ELSE rest

\* sum(img.height for img in images).
RECURSIVE total_height(_)
total_height(images) ==
    IF images = <<>> THEN 0
    ELSE Head(images).height + total_height(Tail(images))

\* A mutation of PasteLoop: y_offset advances by the image's width.
RECURSIVE PasteLoop_AdvanceByWidth(_, _)
PasteLoop_AdvanceByWidth(images, y_offset) ==
    IF images = <<>> THEN <<>>
    ELSE <<(<<0, y_offset>>)>>
            \o PasteLoop_AdvanceByWidth(Tail(images), y_offset + Head(images).width)

\* The loop at app.py:132-137: the positions the images are pasted at.
RECURSIVE PasteLoop(_, _)
PasteLoop(images, y_offset) ==
    IF images = <<>> THEN <<>>
    ELSE <<(<<0, y_offset>>)>>
            \o PasteLoop(Tail(images), y_offset + Head(images).height)

\* stacked_image once the loop is over.
StackedImage(images) ==
    [size   |-> <<max_width(images), total_height(images)>>,
     pasted |-> PasteLoop(images, 0)]

\* tempfile.mkstemp: the names it may return, none of a file that exists.
mkstemp(names, d) == names \ d

\* app.py:227.
boundary == "Boundary712sAM12MVaJff23NXJ"

\* The mimetype of the streamed response (app.py:299), in two pieces.
Mimetype == <<"multipart/mixed; boundary=", boundary>>

\* A mutation of CleanupFiles: the stacked image is not put on the list.
CleanupFiles_ContentOnly(content, stacked) ==
    IF content # None THEN <<content[1]>> ELSE <<>>

\* cleanup_files as built in app.py:230-234.
CleanupFiles(content, stacked) ==
    (IF content # None THEN <<content[1]>> ELSE <<>>)
        \o (IF stacked # None THEN <<stacked[1]>> ELSE <<>>)

(***************************************************************************)
(* The two clean-up loops of the generator.  F is the set of paths on      *)
(* which os.unlink raises in this run of the loop.                         *)
(***************************************************************************)
\* The line printed at app.py:293 for a path and the exception os.unlink raised;
\* the path is given by its kind and index.
CleanupError(path, exception) ==
    <<"Error cleaning up file", path[1], ToString(path[3]), exception>>

\* The line printed at app.py:284.
StreamingError(exception) == <<"Error during streaming", exception>>

\* The same line when the exception is the one os.unlink raised at app.py:282:
\* its text names the file.
StreamingUnlinkError(path) ==
    <<"Error during streaming", "PermissionError", path[1], ToString(path[3])>>

\* A mutation of RawLoop: the raw screenshots are never removed.
RawLoop_Skip(files, d, F) ==
    [disk |-> d, unlinked |-> <<>>, raised |-> FALSE, failed |-> None]

\* app.py:280-282: no try around the unlink, so the first failure ends the loop
\* and is caught by the generator's "except Exception".
RECURSIVE RawLoop(_, _, _)
RawLoop(files, d, F) ==
    IF files = <<>>
    THEN [disk |-> d, unlinked |-> <<>>, raised |-> FALSE, failed |-> None]
    ELSE IF Head(files) \notin d
    THEN RawLoop(Tail(files), d, F)
    ELSE IF Head(files) \in F
    THEN [disk |-> d, unlinked |-> <<>>, raised |-> TRUE, failed |-> Some(Head(files))]
    ELSE [RawLoop(Tail(files), d \ {Head(files)}, F)
            EXCEPT !.unlinked = <<Head(files)>> \o @]

\* A mutation of FinallyLoop: no os.path.exists test, so unlinking an absent
\* file raises FileNotFoundError, which is caught and logged.
RECURSIVE FinallyLoop_NoExistsTest(_, _, _)
FinallyLoop_NoExistsTest(files, d, F) ==
    IF files = <<>>
    THEN [disk |-> d, unlinked |-> <<>>, log |-> <<>>, raised |-> FALSE]
    ELSE IF Head(files) \notin d
    THEN [FinallyLoop_NoExistsTest(Tail(files), d, F)
            EXCEPT !.log = <<CleanupError(Head(files), "FileNotFoundError")>> \o @]
    ELSE IF Head(files) \in F
    THEN [FinallyLoop_NoExistsTest(Tail(files), d, F)
            EXCEPT !.log = <<CleanupError(Head(files), "PermissionError")>> \o @]
    ELSE [FinallyLoop_NoExistsTest(Tail(files), d \ {Head(files)}, F)
            EXCEPT !.unlinked = <<Head(files)>> \o @]

\* A mutation of FinallyLoop: no try around the unlink, so the first failure
\* leaves the generator.
RECURSIVE FinallyLoop_NoTry(_, _, _)
FinallyLoop_NoTry(files, d, F) ==
    IF files = <<>>
    THEN [disk |-> d, unlinked |-> <<>>, log |-> <<>>, raised |-> FALSE]
    ELSE IF Head(files) \notin d
    THEN FinallyLoop_NoTry(Tail(files), d, F)
    ELSE IF Head(files) \in F
    THEN [disk |-> d, unlinked |-> <<>>, log |-> <<>>, raised |-> TRUE]
    ELSE [FinallyLoop_NoTry(Tail(files), d \ {Head(files)}, F)
            EXCEPT !.unlinked = <<Head(files)>> \o @]

\* app.py:286-293: each file has its own try, a failure is printed and the loop
\* goes on; nothing is raised.
RECURSIVE FinallyLoop(_, _, _)
FinallyLoop(files, d, F) ==
    IF files = <<>>
    THEN [disk |-> d, unlinked |-> <<>>, log |-> <<>>, raised |-> FALSE]
    ELSE IF Head(files) \notin d
    THEN FinallyLoop(Tail(files), d, F)
    ELSE IF Head(files) \in F
    THEN [FinallyLoop(Tail(files), d, F)
            EXCEPT !.log = <<CleanupError(Head(files), "PermissionError")>> \o @]
    ELSE [FinallyLoop(Tail(files), d \ {Head(files)}, F)
            EXCEPT !.unlinked = <<Head(files)>> \o @]

\* The sets of paths os.unlink may raise on during one run of a loop over files.
FaultSets(files) == IF unlinkMayFail THEN SUBSET Range(files) ELSE {{}}

(***************************************************************************)
(* The initial state: the keys are loaded and the requests in "active"     *)
(* have arrived; the others stay "off" for the whole behaviour.            *)
(***************************************************************************)
KeySets == {{}, {"k1"}}

NoStackProbe ==
    [called |-> FALSE, image_files |-> <<>>, images |-> <<>>, before |-> {},
     result |-> [path |-> None, created |-> {}, removed |-> {}, raised |-> FALSE],
     after |-> {}, stacked_image |-> None]

NoProbe == [called |-> FALSE, url |-> EmptyUrl, allowed |-> {}, result |-> ""]

InitWith(active, faults) ==
    /\ SCRAPER_API_KEYS \in KeySets
    /\ unlinkMayFail = faults
    /\ disk = {}
    /\ pc = [r \in Reqs |-> IF r \in active THEN "auth" ELSE "off"]
    /\ request = [r \in Reqs |-> NoRequest]
    /\ checks = [r \in Reqs |-> <<>>]
    /\ dnsLookups = [r \in Reqs |-> <<>>]
    /\ image_format = [r \in Reqs |-> None]
    /\ task = [r \in Reqs |-> None]
    /\ workerCalls = [r \in Reqs |-> 0]
    /\ response = [r \in Reqs |-> NoResponse]
    /\ content_file = [r \in Reqs |-> None]
    /\ screenshot_files = [r \in Reqs |-> <<>>]
    /\ stacked_screenshot = [r \in Reqs |-> None]
    /\ cleanup_files = [r \in Reqs |-> <<>>]
    /\ fileChunks = [r \in Reqs |-> [content |-> 0, stacked |-> 0]]
    /\ out = [r \in Reqs |-> <<>>]
    /\ ended = [r \in Reqs |-> "no"]
    /\ escaped = [r \in Reqs |-> FALSE]
    /\ log = [r \in Reqs |-> <<>>]
    /\ unlinked = [r \in Reqs |-> <<>>]
    /\ probe = NoProbe
    /\ stackProbe = NoStackProbe

Init == InitWith({1}, FALSE)

InitFault == InitWith({1}, TRUE)

InitConc == InitWith(Reqs, FALSE) /\ SCRAPER_API_KEYS = {}

streamVars == <<disk, content_file, screenshot_files, stacked_screenshot, cleanup_files,
                fileChunks, out, ended, escaped, unlinked>>

\* The handler returns a response that is not streamed.
Return(r, resp) ==
    /\ response' = [response EXCEPT ![r] = resp]
    /\ pc' = [pc EXCEPT ![r] = "done"]

(***************************************************************************)
(* The handler, app.py:151-217, one action per check.                      *)
(***************************************************************************)
\* app.py:151-161.  The Authorization header is read only when keys are loaded.
\* The Accept header the request came with is fixed here too, so that a
\* request refused before app.py:190 has one.
CheckAuth(r) ==
    /\ pc[r] = "auth"
    /\ \E a \in (IF SCRAPER_API_KEYS = {} THEN {None} ELSE Optional(AuthValues)),
          acc \in Drawn(Optional(AcceptValues), {None}) :
        /\ request' = [request EXCEPT ![r].auth = a, ![r].accept = acc]
        /\ LET refused == Authenticate(SCRAPER_API_KEYS, a)
           IN  IF refused # None
               THEN Return(r, refused[1])
               ELSE /\ pc' = [pc EXCEPT ![r] = "url"]
                    /\ UNCHANGED response
    /\ checks' = [checks EXCEPT ![r] = Append(@, "auth")]
    /\ UNCHANGED <<SCRAPER_API_KEYS, unlinkMayFail, dnsLookups, image_format, task,
                   workerCalls, log, probe, stackProbe,
                   streamVars>>

\* app.py:163-168.  An exception leaving url_is_safe leaves the handler too,
\* and flask answers 500.
CheckUrl(r) ==
    /\ pc[r] = "url"
    /\ \E u \in Drawn(Optional(RequestUrls), {Some(PublicUrl)}) :
        /\ request' = [request EXCEPT ![r].url = u]
        /\ IF u = None \/ u = Some(EmptyUrl)
           THEN /\ Return(r, ErrorResponse(400, <<"No URL provided">>))
                /\ checks' = [checks EXCEPT ![r] = Append(@, "url")]
                /\ UNCHANGED dnsLookups
           ELSE /\ checks' = [checks EXCEPT ![r] = @ \o <<"url", "url_is_safe">>]
                /\ dnsLookups' = [dnsLookups EXCEPT
                                    ![r] = @ \o ResolvedBy(u[1], DefaultSchemes)]
                /\ LET safe == url_is_safe(u[1], DefaultSchemes)
                   IN  CASE safe = "safe" ->
                               /\ pc' = [pc EXCEPT ![r] = "bounds"]
                               /\ UNCHANGED response
                         [] safe = "unsafe" ->
                               Return(r, ErrorResponse(400, <<"URL was judged to be unsafe">>))
                         [] safe = "raise" ->
                               Return(r, ErrorResponse(500, <<"Internal Server Error">>))
    /\ UNCHANGED <<SCRAPER_API_KEYS, unlinkMayFail, image_format, task, workerCalls,
                   log, probe, stackProbe,
                   streamVars>>

\* The names of the bounds checks that run for these values, in order.
BoundsChecksRun(wait, n_screenshots, browser_dim) ==
    IF WaitRejected(wait) THEN <<"wait">>
    ELSE IF \E i \in 1..2 : DimRejected(browser_dim, i) THEN <<"wait", "browser_dim">>
    ELSE <<"wait", "browser_dim", "max_screenshots">>

\* app.py:170-188.
CheckBounds(r) ==
    /\ pc[r] = "bounds"
    /\ \E w \in Drawn(Optional(WaitValues), {None}),
          n \in Drawn(Optional(ShotValues), {None}),
          d \in Drawn(Optional(DimValues), {None}) :
        LET wait          == Get(w, DEFAULT_WAIT)
            n_screenshots == Get(n, DEFAULT_SCREENSHOTS)
            browser_dim   == Get(d, DEFAULT_BROWSER_DIM)
            refused       == ValidateBounds(wait, n_screenshots, browser_dim)
        IN  /\ request' = [request EXCEPT ![r].wait = w, ![r].max_screenshots = n,
                                          ![r].browser_dim = d]
            /\ checks' = [checks EXCEPT
                            ![r] = @ \o BoundsChecksRun(wait, n_screenshots, browser_dim)]
            /\ IF refused # None
               THEN Return(r, refused[1])
               ELSE /\ pc' = [pc EXCEPT ![r] = "accept"]
                    /\ UNCHANGED response
    /\ UNCHANGED <<SCRAPER_API_KEYS, unlinkMayFail, dnsLookups, image_format, task,
                   workerCalls, log, probe, stackProbe,
                   streamVars>>

\* app.py:190-205.
CheckAccept(r) ==
    /\ pc[r] = "accept"
    /\ LET accept_header == Get(request[r].accept, "image/jpeg")
           format        == accepted_formats(accept_header)
       IN  /\ image_format' = [image_format EXCEPT ![r] = format]
           /\ IF format = None
              THEN Return(r, ErrorResponse(406,
                       <<"Unsupported image format in Accept header (", accept_header,
                         "). Supported Accept header values are: ",
                         accepted_formats_list>>))
              ELSE /\ pc' = [pc EXCEPT ![r] = "dispatch"]
                   /\ UNCHANGED response
    /\ checks' = [checks EXCEPT ![r] = Append(@, "accept")]
    /\ UNCHANGED <<SCRAPER_API_KEYS, unlinkMayFail, request, dnsLookups, task,
                   workerCalls, log, probe, stackProbe,
                   streamVars>>

\* The arguments handed to the worker (app.py:210).
TaskArgs(r) ==
    [url           |-> request[r].url[1],
     wait          |-> Get(request[r].wait, DEFAULT_WAIT),
     image_format  |-> image_format[r][1],
     n_screenshots |-> Get(request[r].max_screenshots, DEFAULT_SCREENSHOTS),
     browser_dim   |-> Get(request[r].browser_dim, DEFAULT_BROWSER_DIM)]

\* app.py:207-211: scrape_task.apply_async(...); the handler then blocks in get().
Dispatch(r) ==
    /\ pc[r] = "dispatch"
    /\ task' = [task EXCEPT ![r] = Some(TaskArgs(r))]
    /\ workerCalls' = [workerCalls EXCEPT ![r] = @ + 1]
    /\ pc' = [pc EXCEPT ![r] = "waiting"]
    /\ UNCHANGED <<SCRAPER_API_KEYS, unlinkMayFail, request, checks, dnsLookups,
                   image_format, response, log, probe, stackProbe,
                   streamVars>>

\* The exceptions get() is seen to raise: the 60 s timeout and a lost worker.
DispatchExceptions == {"TimeoutError", "WorkerLostError"}

\* A mutation of DispatchFailed: the exception's text is put into the body.
DispatchFailed_LeaksException(e) ==
    ErrorResponse(500, <<"Scraping process failed: ", e>>)

\* The response of the except clause, app.py:213-217, for exception e.
DispatchFailed(e) == ErrorResponse(500, <<"Scraping process failed">>)

\* app.py:213-217: get() raises (the 60 s timeout, or any other exception).
WorkerFails(r) ==
    /\ pc[r] = "waiting"
    /\ \E e \in DispatchExceptions :
        /\ log' = [log EXCEPT
                     ![r] = Append(@, <<"Exception raised from scraping process", e>>)]
        /\ Return(r, DispatchFailed(e))
    /\ task' = [task EXCEPT ![r] = None]
    /\ UNCHANGED <<SCRAPER_API_KEYS, unlinkMayFail, request, checks, dnsLookups,
                   image_format, workerCalls, probe, stackProbe,
                   streamVars>>

\* app.py:209-306 once get() has returned: the worker has written its files;
\* the handler stacks the screenshots, builds the generator and returns the
\* response, or answers 500 when the result has no content file.  An
\* exception leaving stack_images_vertically leaves the handler too.
WorkerReturns(r) ==
    /\ pc[r] = "waiting"
    /\ \E hasContent \in BOOLEAN, n \in 0..MaxShots, cc \in Drawn(0..MaxChunks, {1}) :
       \E sc \in (IF n = 0 THEN {0} ELSE Drawn(0..MaxChunks, {1})),
          stackFails \in (IF n >= 2 THEN StackFailures ELSE {"no"}) :
        LET content == IF hasContent THEN Some(ContentPath(r)) ELSE None
            shots   == [i \in 1..n |-> ShotPath(r, i)]
            written == Range(shots) \cup Range(content)
            stacked == stack_images_vertically(shots, StackedPath(r), stackFails)
        IN  /\ content_file' = [content_file EXCEPT ![r] = content]
            /\ screenshot_files' = [screenshot_files EXCEPT ![r] = shots]
            /\ IF content = None
               THEN /\ disk' = disk \cup written
                    /\ Return(r, ErrorResponse(500,
                            <<"This is a generic error message; sorry about that.">>))
                    /\ UNCHANGED <<request, stacked_screenshot, cleanup_files, fileChunks>>
               ELSE IF stacked.raised
               THEN /\ disk' = disk \cup written \cup stacked.created
                    /\ Return(r, ErrorResponse(500, <<"Internal Server Error">>))
                    /\ UNCHANGED <<request, stacked_screenshot, cleanup_files, fileChunks>>
               ELSE /\ disk' = (disk \cup written \cup stacked.created) \ stacked.removed
                    /\ stacked_screenshot' = [stacked_screenshot EXCEPT ![r] = stacked.path]
                    /\ cleanup_files' = [cleanup_files EXCEPT
                                           ![r] = CleanupFiles(content, stacked.path)]
                    /\ fileChunks' = [fileChunks EXCEPT
                                        ![r] = [content |-> cc, stacked |-> sc]]
                    /\ response' = [response EXCEPT
                                      ![r] = [status |-> 200, body |-> Mimetype]]
                    /\ request' = [request EXCEPT ![r] = NoRequest]
                    /\ pc' = [pc EXCEPT ![r] = "start"]
    /\ task' = [task EXCEPT ![r] = None]
    /\ UNCHANGED <<SCRAPER_API_KEYS, unlinkMayFail, checks, dnsLookups, image_format,
                   workerCalls, out, ended, escaped, log, unlinked, probe, stackProbe>>

(***************************************************************************)
(* The generator stream(), app.py:238-293.  pc is "start" before the first *)
(* next(), then the name of the yield the generator is suspended at:       *)
(*   info_hdr    app.py:243      info_json   app.py:248                    *)
(*   main_hdr    app.py:253      main_chunk  app.py:261                    *)
(*   shot_hdr    app.py:266      shot_chunk  app.py:274                    *)
(*   final       app.py:277                                                *)
(* and "done" once it has returned.  out lists the yields made.            *)
(***************************************************************************)
Suspended == {"start", "info_hdr", "info_json", "main_hdr", "main_chunk",
              "shot_hdr", "shot_chunk", "final"}

\* What follows the main content part (app.py:264).
AfterMain(r) == IF stacked_screenshot[r] # None THEN "shot_hdr" ELSE "final"

\* A mutation of NextChunk: the screenshot part is written before the content.
NextChunk_ShotFirst(r) ==
    CASE pc[r] = "start"     -> "info_hdr"
      [] pc[r] = "info_hdr"  -> "info_json"
      [] pc[r] = "info_json" ->
            IF stacked_screenshot[r] # None THEN "shot_hdr" ELSE "main_hdr"
      [] pc[r] \in {"shot_hdr", "shot_chunk"} ->
            IF Count(out[r], "shot_chunk") < fileChunks[r].stacked
            THEN "shot_chunk" ELSE "main_hdr"
      [] pc[r] \in {"main_hdr", "main_chunk"} ->
            IF Count(out[r], "main_chunk") < fileChunks[r].content
            THEN "main_chunk" ELSE "final"

\* The yield the generator reaches from where it is suspended.
NextChunk(r) ==
    CASE pc[r] = "start"     -> "info_hdr"
      [] pc[r] = "info_hdr"  -> "info_json"
      [] pc[r] = "info_json" -> "main_hdr"
      [] pc[r] \in {"main_hdr", "main_chunk"} ->
            IF Count(out[r], "main_chunk") < fileChunks[r].content
            THEN "main_chunk" ELSE AfterMain(r)
      [] pc[r] \in {"shot_hdr", "shot_chunk"} ->
            IF Count(out[r], "shot_chunk") < fileChunks[r].stacked
            THEN "shot_chunk" ELSE "final"

\* open() raises when the file to stream is gone (app.py:259, 272).
OpenFails(r) ==
    \/ pc[r] = "main_hdr" /\ content_file[r][1] \notin disk
    \/ pc[r] = "shot_hdr" /\ stacked_screenshot[r][1] \notin disk

\* The generator ends: what the clean-up loops did, and how it ended.
EndGenerator(r, how, raw, fin, printed) ==
    /\ disk' = fin.disk
    /\ unlinked' = [unlinked EXCEPT ![r] = @ \o raw.unlinked \o fin.unlinked]
    /\ log' = [log EXCEPT ![r] = @ \o printed \o fin.log]
    /\ escaped' = [escaped EXCEPT ![r] = fin.raised]
    /\ ended' = [ended EXCEPT ![r] = how]
    /\ pc' = [pc EXCEPT ![r] = "done"]

NoRaw(d) == [disk |-> d, unlinked |-> <<>>, raised |-> FALSE, failed |-> None]

handlerVars == <<SCRAPER_API_KEYS, unlinkMayFail, request, checks, dnsLookups,
                 image_format, task, workerCalls, response, probe,
                 stackProbe>>

\* next(): the generator runs to its next yield.
StreamYield(r) ==
    /\ pc[r] \in Suspended \ {"final"}
    /\ ~OpenFails(r)
    /\ out' = [out EXCEPT ![r] = Append(@, NextChunk(r))]
    /\ pc' = [pc EXCEPT ![r] = NextChunk(r)]
    /\ UNCHANGED <<handlerVars, disk, content_file, screenshot_files, stacked_screenshot,
                   cleanup_files, fileChunks, ended, escaped, log, unlinked>>

\* next(): an exception is raised before the next yield (json.dumps on the
\* metadata, a missing content-type header, a failing open or read): the
\* except clause prints it, the finally clause cleans up, the generator
\* returns.  Nothing can raise before the first yield, and after the last one
\* only os.unlink can (StreamFinish).
StreamError(r) ==
    /\ pc[r] \in Suspended \ {"start", "final"}
    /\ \E F \in FaultSets(cleanup_files[r]) :
        EndGenerator(r, "error", NoRaw(disk), FinallyLoop(cleanup_files[r], disk, F),
                     <<StreamingError("Exception")>>)
    /\ UNCHANGED <<handlerVars, content_file, screenshot_files, stacked_screenshot,
                   cleanup_files, fileChunks, out>>

\* next() after the closing boundary was yielded: the raw screenshots are
\* removed (a failure is caught by the except clause), the finally clause
\* cleans up, the generator returns.
StreamFinish(r) ==
    /\ pc[r] = "final"
    /\ \E Fraw \in FaultSets(screenshot_files[r]), F \in FaultSets(cleanup_files[r]) :
        LET raw == RawLoop(screenshot_files[r], disk, Fraw)
        IN  EndGenerator(r, "complete", raw, FinallyLoop(cleanup_files[r], raw.disk, F),
                         IF raw.raised THEN <<StreamingUnlinkError(raw.failed[1])>>
                                       ELSE <<>>)
    /\ UNCHANGED <<handlerVars, content_file, screenshot_files, stacked_screenshot,
                   cleanup_files, fileChunks, out>>

\* close(): the client went away.  GeneratorExit is raised at the yield the
\* generator is suspended at; it is no Exception, so only the finally clause
\* runs.  A generator that was never started runs nothing.
StreamClose(r) ==
    /\ pc[r] \in Suspended
    /\ IF pc[r] = "start"
       THEN /\ ended' = [ended EXCEPT ![r] = "unstarted"]
            /\ pc' = [pc EXCEPT ![r] = "done"]
            /\ UNCHANGED <<disk, unlinked, log, escaped>>
       ELSE \E F \in FaultSets(cleanup_files[r]) :
               EndGenerator(r, "closed", NoRaw(disk),
                            FinallyLoop(cleanup_files[r], disk, F), <<>>)
    /\ UNCHANGED <<handlerVars, content_file, screenshot_files, stacked_screenshot,
                   cleanup_files, fileChunks, out>>

Next ==
    \E r \in Reqs :
        \/ CheckAuth(r)
        \/ CheckUrl(r)
        \/ CheckBounds(r)
        \/ CheckAccept(r)
        \/ Dispatch(r)
        \/ WorkerFails(r)
        \/ WorkerReturns(r)
        \/ StreamYield(r)
        \/ StreamError(r)
        \/ StreamFinish(r)
        \/ StreamClose(r)

\* One request, on a file system where os.unlink succeeds on existing files.
Spec == Init /\ [][Next]_vars

\* One request, on a file system where os.unlink may raise.
SpecFault == InitFault /\ [][Next]_vars

\* Two requests handled concurrently, their steps interleaved in any order, with
\* no keys loaded and os.unlink succeeding on existing files.
SpecConc == InitConc /\ [][Next]_vars

(***************************************************************************)
(* url_is_safe on its own: one call on any URL and any allow-list.         *)
(***************************************************************************)
ProbeSchemes == {"http", "HTTP", "https", "file", "File", "ftp", ""}

ProbeUrls ==
    {[scheme |-> sc, netloc |-> nl] :
        sc \in ProbeSchemes,
        nl \in {<<h>> : h \in Hosts} \cup {<<"public.example", "8080">>, <<"intranet", "80">>}}

AllowLists == SUBSET {"http", "https", "file", "ftp"}

CallUrlIsSafe ==
    /\ ~probe.called
    /\ \E u \in ProbeUrls, allowed \in AllowLists :
        probe' = [called |-> TRUE, url |-> u, allowed |-> allowed,
                  result |-> url_is_safe(u, allowed)]
    /\ UNCHANGED <<SCRAPER_API_KEYS, unlinkMayFail, disk, pc, request, checks, dnsLookups,
                   image_format, task, workerCalls, response, content_file,
                   screenshot_files, stacked_screenshot, cleanup_files, fileChunks, out,
                   ended, escaped, log, unlinked, stackProbe>>

NextSafe == CallUrlIsSafe

\* Calls of url_is_safe alone.
SpecSafe == Init /\ [][NextSafe]_vars

(***************************************************************************)
(* stack_images_vertically on its own: one call on any list of up to       *)
(* MaxImages image files that exist, of any of the sizes below.            *)
(***************************************************************************)
ImageWidths == {100, 150, 200}

ImageHeights == {50, 60, 70}

Images == [width : ImageWidths, height : ImageHeights]

\* The names mkstemp chooses from: those of the inputs and two more.
TempNames == {ShotPath(1, i) : i \in 1..(MaxImages + 1)} \cup {StackedPath(1)}

CallStack ==
    /\ ~stackProbe.called
    /\ \E n \in 0..MaxImages :
       \E images \in [1..n -> Images],
          fails \in (IF n >= 2 THEN StackFailures ELSE {"no"}) :
        LET image_files == [i \in 1..n |-> ShotPath(1, i)]
            before      == Range(image_files)
        IN  \E output_path \in mkstemp(TempNames, before) :
              LET res == stack_images_vertically(image_files, output_path, fails)
              IN  stackProbe' =
                    [called       |-> TRUE,
                     image_files  |-> image_files,
                     images       |-> images,
                     before       |-> before,
                     result       |-> res,
                     after        |-> (before \cup res.created) \ res.removed,
                     stacked_image |-> IF n >= 2 /\ fails # "open"
                                       THEN Some(StackedImage(images)) ELSE None]
    /\ UNCHANGED <<SCRAPER_API_KEYS, unlinkMayFail, disk, pc, request, checks, dnsLookups,
                   image_format, task, workerCalls, response, content_file,
                   screenshot_files, stacked_screenshot, cleanup_files, fileChunks, out,
                   ended, escaped, log, unlinked, probe>>

NextStack == CallStack

\* Calls of stack_images_vertically alone.
SpecStack == Init /\ [][NextStack]_vars

(***************************************************************************)
(* Vocabulary of the properties.                                           *)
(***************************************************************************)
\* Every file tracked for request r: content, stacked image, raw screenshots.
Tracked(r) ==
    Range(content_file[r]) \cup Range(stacked_screenshot[r]) \cup Range(screenshot_files[r])

\* The generator of request r was started and has returned.
StreamEnded(r) == ended[r] \in {"complete", "closed", "error"}

\* n copies of x.
Repeat(x, n) == [i \in 1..n |-> x]

\* The chunks of a fully drained response, from the result alone.
FullBody(r) ==
    <<"info_hdr", "info_json", "main_hdr">>
        \o Repeat("main_chunk", fileChunks[r].content)
        \o (IF stacked_screenshot[r] # None
            THEN <<"shot_hdr">> \o Repeat("shot_chunk", fileChunks[r].stacked)
            ELSE <<>>)
        \o <<"final">>

\* The stream has yielded the whole stacked-screenshot part.
ShotPartEmitted(r) ==
    /\ Count(out[r], "shot_hdr") = 1
    /\ Count(out[r], "shot_chunk") = fileChunks[r].stacked
    /\ out[r][Len(out[r])] \in {"shot_chunk", "shot_hdr", "final"}

IsPrefix(p, q) == Len(p) <= Len(q) /\ \A i \in 1..Len(p) : p[i] = q[i]

(***************************************************************************)
(* The claims.                                                             *)
(***************************************************************************)
\* C1 (as stated): when the generator has ended after an error raised once
\* the stream had begun to yield, every tracked file (content, stacked image,
\* every raw screenshot) is gone from the disk and no exception has left the
\* generator.
C1_ErrorLeavesNoArtifact ==
    \A r \in Reqs :
        (ended[r] = "error" /\ out[r] # <<>>) =>
            Tracked(r) \cap disk = {} /\ ~escaped[r]

\* C2: however a started stream ends (drained, closed by the client, or a
\* streaming error), the content file and the stacked image are gone once it
\* has ended, and both exist as long as the generator can still yield.
C2_ContentAndStackedDeletedAfterEnd ==
    \A r \in Reqs :
        /\ StreamEnded(r) =>
              (Range(content_file[r]) \cup Range(stacked_screenshot[r])) \cap disk = {}
        /\ pc[r] \in Suspended =>
              (Range(content_file[r]) \cup Range(stacked_screenshot[r])) \subseteq disk

\* C2 witness: a stream with a stacked image of two screenshots, closed by the
\* client in the middle of the content part, has ended with both files gone.
C2_Witness ==
    \E r \in Reqs :
        /\ ended[r] = "closed"
        /\ Len(screenshot_files[r]) = 2
        /\ out[r][Len(out[r])] = "main_chunk"
        /\ content_file[r][1] \notin disk
        /\ stacked_screenshot[r][1] \notin disk

\* C3 (as stated): on every exit path, a raw screenshot is gone from the disk
\* only when the stream has yielded the whole stacked-screenshot part.
C3_RawKeptUntilShotPartEmitted ==
    \A r \in Reqs :
        \A f \in Range(screenshot_files[r]) :
            f \notin disk => ShotPartEmitted(r)

\* C3 (amended): a raw screenshot is gone from the disk only when the
\* generator has ended; if it ended by draining, the whole stacked-screenshot
\* part was yielded before.  While the generator can still yield, every raw
\* screenshot exists.
C3_RawKeptWhileStreamCanYield ==
    \A r \in Reqs :
        \A f \in Range(screenshot_files[r]) :
            f \notin disk =>
                /\ StreamEnded(r)
                /\ ended[r] = "complete" => ShotPartEmitted(r)

\* C3 witness: a drained stream of two screenshots, both raw files gone.
C3_Witness ==
    \E r \in Reqs :
        /\ ended[r] = "complete"
        /\ Len(screenshot_files[r]) = 2
        /\ Range(screenshot_files[r]) \cap disk = {}
        /\ ShotPartEmitted(r)

\* C4: once a response has been drained (the closing boundary was yielded and
\* the generator returned), no tracked file of the request is on the disk.
C4_DrainedLeavesNoArtifact ==
    \A r \in Reqs :
        ended[r] = "complete" =>
            /\ out[r] = FullBody(r)
            /\ Tracked(r) \cap disk = {}

\* C4 witness: a drained response with content, two raw screenshots and a
\* stacked image, all removed.
C4_Witness ==
    \E r \in Reqs :
        /\ ended[r] = "complete"
        /\ Cardinality(Tracked(r)) = 4
        /\ Range(unlinked[r]) = Tracked(r)

\* C5: no file is unlinked twice, and no clean-up step calls os.unlink on a
\* file that is already gone (no FileNotFoundError is raised or printed),
\* also when the stacked image is the single raw screenshot.
C5_UnlinkedAtMostOnce ==
    \A r \in Reqs :
        /\ \A f \in Range(unlinked[r]) : Count(unlinked[r], f) = 1
        /\ \A i \in 1..Len(log[r]) : log[r][i][Len(log[r][i])] # "FileNotFoundError"
        /\ Range(unlinked[r]) \cap disk = {}

\* C5 witness: one screenshot, which is both the stacked image and the raw
\* file; the stream was drained, the raw loop removed it and the finally
\* clause met it absent.
C5_Witness ==
    \E r \in Reqs :
        /\ ended[r] = "complete"
        /\ Len(screenshot_files[r]) = 1
        /\ stacked_screenshot[r] = Some(screenshot_files[r][1])
        /\ Count(unlinked[r], screenshot_files[r][1]) = 1
        /\ Len(unlinked[r]) = 2

\* C6: a failing os.unlink is printed and nothing else: no exception leaves
\* the generator, the response keeps its status 200, what was yielded is a
\* prefix of the full body and a drained stream has yielded the full body;
\* a listed clean-up file left on the disk has its failure in the log.
C6_DeletionFailureOnlyLogged ==
    \A r \in Reqs :
        /\ ~escaped[r]
        /\ (pc[r] \in Suspended \/ ended[r] # "no") =>
              /\ response[r].status = 200
              /\ IsPrefix(out[r], FullBody(r))
        /\ ended[r] = "complete" => out[r] = FullBody(r)
        /\ StreamEnded(r) =>
              \A f \in Range(cleanup_files[r]) \cap disk :
                  \E i \in 1..Len(log[r]) :
                      log[r][i] \in {CleanupError(f, "PermissionError")}

\* C6 witness: a drained stream where unlinking the content file failed.
C6_Witness ==
    \E r \in Reqs :
        /\ ended[r] = "complete"
        /\ content_file[r][1] \in disk
        /\ \E i \in 1..Len(log[r]) :
              log[r][i] = CleanupError(content_file[r][1], "PermissionError")

\* The handler of request r has not returned a streaming response: request[r]
\* holds what the handler has read.
Alive(r) == pc[r] \notin Suspended \cup {"off"} /\ ended[r] = "no"

\* The Authorization header carries a loaded key as its bearer token.
GoodAuth(auth) ==
    /\ auth # None
    /\ Len(auth[1]) >= 2
    /\ auth[1][1] = "Bearer"
    /\ auth[1][2] \in SCRAPER_API_KEYS

\* The values the bounds checks see lie within the limits.
InBounds(req) ==
    /\ Get(req.wait, DEFAULT_WAIT) \in 0..MAX_WAIT
    /\ Get(req.browser_dim, DEFAULT_BROWSER_DIM)[1]
          \in MIN_BROWSER_DIM[1]..MAX_BROWSER_DIM[1]
    /\ Get(req.browser_dim, DEFAULT_BROWSER_DIM)[2]
          \in MIN_BROWSER_DIM[2]..MAX_BROWSER_DIM[2]
    /\ Get(req.max_screenshots, DEFAULT_SCREENSHOTS) <= MAX_SCREENSHOTS

SupportedAccept == {"image/webp", "image/png", "image/jpeg", "image/*", "*/*"}

AllChecks ==
    <<"auth", "url", "url_is_safe", "wait", "browser_dim", "max_screenshots", "accept">>

\* C7: scrape_task.apply_async is called only for a request that passed
\* authentication, has a non-empty url judged safe, values within the limits
\* and a supported Accept value, and is handed exactly these values; a request
\* answered 401, 400 or 406 made no call.
C7_DispatchOnlyValidated ==
    \A r \in Reqs :
        /\ pc[r] = "waiting" =>
              /\ SCRAPER_API_KEYS = {} \/ GoodAuth(request[r].auth)
              /\ request[r].url # None /\ request[r].url[1] # EmptyUrl
              /\ url_is_safe(request[r].url[1], DefaultSchemes) = "safe"
              /\ InBounds(request[r])
              /\ Get(request[r].accept, "image/jpeg") \in SupportedAccept
              /\ task[r] # None
              /\ task[r][1].wait \in 0..MAX_WAIT
              /\ task[r][1].n_screenshots <= MAX_SCREENSHOTS
              /\ \A i \in 1..2 :
                    task[r][1].browser_dim[i] \in MIN_BROWSER_DIM[i]..MAX_BROWSER_DIM[i]
              /\ task[r][1].url = request[r].url[1]
        /\ workerCalls[r] > 0 => checks[r] = AllChecks
        /\ response[r].status \in {401, 400, 406} =>
              workerCalls[r] = 0 /\ task[r] = None /\ Tracked(r) = {}

\* C7 witness: with keys loaded, a request with every value at its upper
\* limit has been dispatched.
C7_Witness ==
    \E r \in Reqs :
        /\ pc[r] = "waiting"
        /\ SCRAPER_API_KEYS # {}
        /\ workerCalls[r] = 1
        /\ request[r].wait = Some(MAX_WAIT)
        /\ request[r].browser_dim = Some(MAX_BROWSER_DIM)
        /\ request[r].max_screenshots = Some(MAX_SCREENSHOTS)

\* C8Safe: the condition under which the claim calls a URL safe.
C8Safe(url, allowed) ==
    \/ Lower(url.scheme) = "file"
    \/ /\ Lower(url.scheme) \in allowed
       /\ getaddrinfo(url.netloc[1]).kind = "addrs"
       /\ \A i \in 1..Len(getaddrinfo(url.netloc[1]).addrs) :
             LET info == IpInfo(getaddrinfo(url.netloc[1]).addrs[i])
             IN  /\ info.parses
                 /\ info.flags \cap {"loopback", "private", "reserved", "link_local",
                                     "multicast"} = {}

BadAuth(auth) ==
    \/ auth = None
    \/ Len(auth[1]) < 2
    \/ auth[1][1] # "Bearer"
    \/ auth[1][2] \notin SCRAPER_API_KEYS

\* C9: with keys loaded, a request whose Authorization header is missing,
\* does not start with 'Bearer ' or carries an unknown token is answered 401
\* with no other check run, no host resolved and no worker called; with no
\* keys loaded no request is answered 401.
C9_BadAuthAnswered401First ==
    \A r \in Reqs :
        /\ (SCRAPER_API_KEYS # {} /\ Alive(r) /\ pc[r] # "auth" /\ BadAuth(request[r].auth))
              => /\ response[r].status = 401
                 /\ checks[r] = <<"auth">>
                 /\ dnsLookups[r] = <<>>
                 /\ workerCalls[r] = 0
        /\ response[r].status = 401 =>
              SCRAPER_API_KEYS # {} /\ BadAuth(request[r].auth)
        /\ SCRAPER_API_KEYS = {} => response[r].status # 401

\* C9 witness: keys are loaded and a request with an unknown bearer token has
\* been answered 401.
C9_Witness ==
    \E r \in Reqs :
        /\ SCRAPER_API_KEYS = {"k1"}
        /\ request[r].auth = Some(<<"Bearer", "k2">>)
        /\ response[r].status = 401

\* C10: once the bounds checks have run on a request (authenticated, url
\* present and safe), it is answered 400 exactly when wait is outside
\* [0, MAX_WAIT], an axis of browser_dim is outside its limits, or
\* max_screenshots exceeds MAX_SCREENSHOTS; the values -1 and MAX_WAIT + 1,
\* one below and one above each axis limit, and MAX_SCREENSHOTS + 1 are
\* rejected, the values at the limits pass.
C10_BoundsRejectExactlyOutOfRange ==
    \A r \in Reqs :
        (Alive(r) /\ Count(checks[r], "wait") = 1) =>
            /\ response[r].status = 400 <=> ~InBounds(request[r])
            /\ request[r].wait \in {Some(0 - 1), Some(MAX_WAIT + 1)}
                  => response[r].status = 400
            /\ ( /\ request[r].wait \in {Some(0), Some(MAX_WAIT)}
                 /\ request[r].browser_dim \in {Some(MIN_BROWSER_DIM), Some(MAX_BROWSER_DIM)}
                 /\ request[r].max_screenshots = Some(MAX_SCREENSHOTS) )
                  => response[r].status # 400
            /\ ( /\ request[r].wait = Some(0)
                 /\ request[r].browser_dim \in Optional(DimValues)
                       \ {None, Some(MIN_BROWSER_DIM), Some(MAX_BROWSER_DIM)} )
                  => response[r].status = 400
            /\ request[r].max_screenshots = Some(MAX_SCREENSHOTS + 1)
                  => response[r].status = 400

\* C10 witness: a request with wait, both axes and max_screenshots at their
\* upper limits has passed the bounds checks.
C10_Witness ==
    \E r \in Reqs :
        /\ pc[r] = "accept"
        /\ request[r].wait = Some(MAX_WAIT)
        /\ request[r].browser_dim = Some(MAX_BROWSER_DIM)
        /\ request[r].max_screenshots = Some(MAX_SCREENSHOTS)


\* The handler has returned for request r without building a stream.
Answered(r) == pc[r] = "done" /\ ended[r] = "no"

\* The request passed authentication: it was not answered 401.
PassedAuth(r) == Count(checks[r], "auth") = 1 /\ response[r].status # 401

\* The Accept value the handler sees is none of the five it supports.
UnsupportedAccept(req) == Get(req.accept, "image/jpeg") \notin SupportedAccept

\* The 406 body for an Accept value, as the claim words it.
C11Body(accept_header) ==
    <<"Unsupported image format in Accept header (", accept_header,
      "). Supported Accept header values are: ",
      "image/webp, image/png, image/jpeg, image/*, */*">>

\* C11 (as stated): every answered request that passed authentication and
\* whose Accept value is unsupported is answered 406, the body listing the
\* five supported values.
C11_UnsupportedAcceptAnswered406 ==
    \A r \in Reqs :
        (Answered(r) /\ PassedAuth(r) /\ UnsupportedAccept(request[r])) =>
            /\ response[r].status = 406
            /\ response[r].body = C11Body(Get(request[r].accept, "image/jpeg"))

\* C11 (amended): an answered request that passed authentication, carries a
\* non-empty url judged safe and values within the limits, and whose Accept
\* value is unsupported is answered 406, the body listing the five supported
\* values verbatim; no other request is answered 406, and a 406 made no
\* worker call.
C11_ValidatedUnsupportedAcceptAnswered406 ==
    \A r \in Reqs :
        /\ ( /\ Answered(r)
             /\ PassedAuth(r)
             /\ request[r].url \notin {None, Some(EmptyUrl)}
             /\ url_is_safe(request[r].url[1], DefaultSchemes) = "safe"
             /\ Count(checks[r], "wait") = 1
             /\ InBounds(request[r])
             /\ UnsupportedAccept(request[r]) )
           => /\ response[r].status = 406
              /\ response[r].body = C11Body(Get(request[r].accept, "image/jpeg"))
        /\ response[r].status = 406 =>
              /\ PassedAuth(r)
              /\ UnsupportedAccept(request[r])
              /\ InBounds(request[r])
              /\ workerCalls[r] = 0

\* C11 witness: a request with Accept: text/html went through every check and
\* was answered 406.
C11_Witness ==
    \E r \in Reqs :
        /\ Answered(r)
        /\ request[r].accept = Some("text/html")
        /\ checks[r] = AllChecks
        /\ response[r].status = 406


\* The except clause of the dispatch ran for request r, for exception e.
DispatchRaised(r, e) ==
    \E i \in 1..Len(log[r]) :
        log[r][i] = <<"Exception raised from scraping process", e>>

\* The worker's result was received (no exception) and holds no content file.
NoContentResult(r) ==
    /\ Answered(r)
    /\ workerCalls[r] = 1
    /\ task[r] = None
    /\ \A e \in DispatchExceptions : ~DispatchRaised(r, e)
    /\ content_file[r] = None

\* C12: whatever exception the dispatch raised, the request is answered 500
\* with the one body 'Scraping process failed' (so two runs that differ in the
\* exception only get the same response), the exception being logged; a result
\* without a content file is answered 500 with the fixed generic message; in
\* both cases no stream was built and nothing was yielded.
C12_DispatchFailureAnswersFixed500 ==
    \A r \in Reqs :
        /\ \A e \in DispatchExceptions :
              DispatchRaised(r, e) =>
                  /\ response[r] = [status |-> 500, body |-> <<"Scraping process failed">>]
                  /\ Answered(r)
                  /\ out[r] = <<>>
        /\ NoContentResult(r) =>
              /\ response[r] =
                    [status |-> 500,
                     body |-> <<"This is a generic error message; sorry about that.">>]
              /\ out[r] = <<>>
              /\ stacked_screenshot[r] = None

\* C12 witness: a request whose dispatch raised WorkerLostError was answered.
C12_Witness ==
    \E r \in Reqs :
        /\ DispatchRaised(r, "WorkerLostError")
        /\ response[r].status = 500
        /\ workerCalls[r] = 1


\* The chunks yielded so far are the first chunks of the fixed sequence: info
\* part, content part, stacked-screenshot part if there is one, closing
\* boundary; the closing boundary is there only when all of them are.
InFixedOrder(r) ==
    /\ IsPrefix(out[r], FullBody(r))
    /\ Count(out[r], "final") = 1 => out[r] = FullBody(r)

\* C13 (as stated): the parts of a stream come in the fixed order, none twice
\* or out of order, the closing boundary only after every earlier part is
\* complete; a stream that ended by an error or by the client's disconnect
\* never contains the closing boundary.
C13_PartsInOrderNoClosingAfterAbort ==
    \A r \in Reqs :
        /\ out[r] # <<>> => InFixedOrder(r)
        /\ ended[r] \in {"error", "closed"} => Count(out[r], "final") = 0

\* C13 (amended): the parts of a stream come in the fixed order, none twice or
\* out of order, the closing boundary only after every earlier part is
\* complete; a stream that ended by an error raised while parts were being
\* produced never contains the closing boundary, and one closed by the client
\* contains it only when it was closed after the last yield, all parts being
\* complete.
C13_PartsInOrder ==
    \A r \in Reqs :
        /\ out[r] # <<>> => InFixedOrder(r)
        /\ ended[r] = "error" => Count(out[r], "final") = 0
        /\ ended[r] = "complete" => out[r] = FullBody(r)
        /\ (ended[r] = "closed" /\ Count(out[r], "final") = 1) => out[r] = FullBody(r)

\* C13 witness: a drained stream with a content part of two chunks and a
\* stacked-screenshot part of two chunks.
C13_Witness ==
    \E r \in Reqs :
        /\ ended[r] = "complete"
        /\ out[r] = <<"info_hdr", "info_json", "main_hdr", "main_chunk", "main_chunk",
                      "shot_hdr", "shot_chunk", "shot_chunk", "final">>


\* The sum of the heights of the first k images.
RECURSIVE HeightsAbove(_, _)
HeightsAbove(images, k) ==
    IF k = 0 THEN 0 ELSE HeightsAbove(images, k - 1) + images[k].height

\* The call of stack_images_vertically got as far as stacking two or more images.
Stacked == stackProbe.called /\ stackProbe.stacked_image # None

\* C14: for two or more images the canvas is as wide as the widest input and
\* as high as all inputs together, and image i is pasted at x = 0 and at y =
\* the sum of the heights of the images before it; images of 100x50, 200x60
\* and 150x70 give a 200x180 canvas with offsets 0, 50 and 110.
C14_CanvasIsMaxWidthBySumOfHeights ==
    Stacked =>
        LET images == stackProbe.images
            canvas == stackProbe.stacked_image[1]
        IN  /\ Len(images) >= 2
            /\ \E i \in 1..Len(images) : canvas.size[1] = images[i].width
            /\ \A i \in 1..Len(images) : canvas.size[1] >= images[i].width
            /\ canvas.size[2] = HeightsAbove(images, Len(images))
            /\ Len(canvas.pasted) = Len(images)
            /\ \A i \in 1..Len(images) :
                  canvas.pasted[i] = <<0, HeightsAbove(images, i - 1)>>
            /\ images = <<[width |-> 100, height |-> 50], [width |-> 200, height |-> 60],
                          [width |-> 150, height |-> 70]>>
               => /\ canvas.size = <<200, 180>>
                  /\ canvas.pasted = <<(<<0, 0>>), (<<0, 50>>), (<<0, 110>>)>>

\* C14 witness: the call on images of 100x50, 200x60 and 150x70 has returned.
C14_Witness ==
    /\ Stacked
    /\ stackProbe.images = <<[width |-> 100, height |-> 50], [width |-> 200, height |-> 60],
                             [width |-> 150, height |-> 70]>>
    /\ ~stackProbe.result.raised
    /\ stackProbe.stacked_image[1].size = <<200, 180>>

\* C15: stack_images_vertically removes no input, whether it returns or
\* raises; it creates a file only for two or more images; for no image it
\* returns None, for one image that image's own path, and for two or more a
\* path that is none of the inputs' and names the one file created.
C15_StackerKeepsInputsCreatesOnlyForMany ==
    stackProbe.called =>
        LET image_files == stackProbe.image_files
            res         == stackProbe.result
        IN  /\ stackProbe.before \subseteq stackProbe.after
            /\ res.removed = {}
            /\ Len(image_files) = 0 =>
                  res.path = None /\ stackProbe.after = stackProbe.before /\ ~res.raised
            /\ Len(image_files) = 1 =>
                  /\ res.path = Some(image_files[1])
                  /\ stackProbe.after = stackProbe.before
                  /\ ~res.raised
            /\ (Len(image_files) >= 2 /\ ~res.raised) =>
                  /\ res.path # None
                  /\ res.path[1] \notin Range(image_files)
                  /\ stackProbe.after \ stackProbe.before = {res.path[1]}
            /\ stackProbe.after # stackProbe.before => Len(image_files) >= 2

\* C15 witness: a call on one image has returned that image, and the disk is
\* as it was.
C15_Witness ==
    /\ stackProbe.called
    /\ Len(stackProbe.image_files) = 1
    /\ stackProbe.result.path = Some(ShotPath(1, 1))
    /\ stackProbe.after = {ShotPath(1, 1)}


\* The boundary token the response of request r announces in its mimetype.
BoundaryOf(r) == response[r].body[2]

\* C16 (as stated): any two distinct successful responses carry different
\* boundary tokens.
C16_BoundaryUniquePerResponse ==
    \A r1, r2 \in Reqs :
        (r1 # r2 /\ response[r1].status = 200 /\ response[r2].status = 200) =>
            BoundaryOf(r1) # BoundaryOf(r2)


\* C17 (as stated): the bounds checks run before url_is_safe resolves the
\* host, so a request whose wait, browser_dim or max_screenshots is out of
\* range has caused no call of socket.getaddrinfo.
C17_OutOfRangeResolvesNoHost ==
    \A r \in Reqs :
        (Alive(r) /\ Count(checks[r], "wait") = 1 /\ ~InBounds(request[r])) =>
            dnsLookups[r] = <<>>


\* All that the handler and the generator of request r hold.
LocalOf(r) ==
    <<pc[r], request[r], checks[r], dnsLookups[r], image_format[r], task[r],
      workerCalls[r], response[r], content_file[r], screenshot_files[r],
      stacked_screenshot[r], cleanup_files[r], fileChunks[r], out[r], ended[r],
      escaped[r], log[r], unlinked[r]>>

\* No file is tracked for two requests; a request has unlinked only files
\* tracked for it; as long as its generator can yield, the files it will read
\* and its raw screenshots exist, whatever the other requests did; and a
\* drained stream is complete with every file of the request removed, whatever
\* became of the other requests.
Isolated ==
    \A r \in Reqs :
        /\ \A o \in Reqs \ {r} : Tracked(r) \cap Tracked(o) = {}
        /\ Range(unlinked[r]) \subseteq Tracked(r)
        /\ pc[r] \in Suspended => Tracked(r) \subseteq disk
        /\ ended[r] = "complete" => out[r] = FullBody(r) /\ Tracked(r) \cap disk = {}

\* A step is taken by one request: it leaves what every other request holds,
\* its response included, and the files tracked for it as they are.
StepOfOne ==
    \E r \in Reqs :
        \A o \in Reqs \ {r} :
            /\ LocalOf(o)' = LocalOf(o)
            /\ disk' \cap Tracked(o) = disk \cap Tracked(o)

\* C18: under every interleaving of the steps of two requests, one of which
\* may fail in dispatch or in the middle of its stream, no request reads,
\* removes or changes a file of the other, and no step of one changes the
\* response or the clean-up of the other.
C18_RequestsIsolated == []Isolated /\ [][StepOfOne]_vars

\* C18 witness: of two requests with two screenshots each, one ended by a
\* streaming error and the other was drained.
C18_Witness ==
    \E r, o \in Reqs :
        /\ ended[r] = "error"
        /\ ended[o] = "complete"
        /\ Len(screenshot_files[r]) = 2
        /\ Len(screenshot_files[o]) = 2
        /\ out[o] = FullBody(o)


\* The log of request r reports that os.unlink raised on file f.
UnlinkFailed(r, f) ==
    \E i \in 1..Len(log[r]) :
        log[r][i] \in {CleanupError(f, "PermissionError"), StreamingUnlinkError(f)}

\* C19 (as stated): a failing deletion of one tracked file does not keep any
\* other tracked file of the request from being deleted: once the clean-up
\* has run, every file whose own deletion did not fail is gone, for the
\* clean-up list (however the stream ended) and for the raw screenshots (when
\* their loop has run, the stream being drained).
C19_FailedDeletionSparesNoOther ==
    \A r \in Reqs :
        /\ StreamEnded(r) =>
              \A f \in Range(cleanup_files[r]) : f \in disk => UnlinkFailed(r, f)
        /\ ended[r] = "complete" =>
              \A f \in Range(screenshot_files[r]) : f \in disk => UnlinkFailed(r, f)


\* The files the worker's result named for request r.
HandedOver(r) == Range(content_file[r]) \cup Range(screenshot_files[r])

\* Request r got a result from the worker and is over without its generator
\* ever having run: answered 500 for a result without content file, answered
\* 500 because stacking raised, or its response closed before the first next().
EndedWithoutStreaming(r) ==
    /\ pc[r] = "done"
    /\ ended[r] \in {"no", "unstarted"}
    /\ workerCalls[r] = 1
    /\ \A e \in DispatchExceptions : ~DispatchRaised(r, e)

\* C20 (as stated): when a request that got a result from the worker ends
\* without streaming, every file the worker handed over is gone from the disk.
C20_NoArtifactOutlivesUnstreamedRequest ==
    \A r \in Reqs :
        EndedWithoutStreaming(r) => HandedOver(r) \cap disk = {}

====
